---------------------------- MODULE Spec2Model ----------------------------
(***************************************************************************)
(* A model of tools/assemble.py, the two-pass assembler of HECTIC: the     *)
(* lexer's token stream, the parser (Parser._parseInstruction), the code   *)
(* builder (CodeBuilder) with its label table and fixup list, the          *)
(* resolution pass (CodeBuilder.doFixups) and the main sequence that       *)
(* writes the hex image.                                                   *)
(*                                                                         *)
(* A token is a sequence of one-character strings, so that the parser's   *)
(* tests on characters (token[-1] == ':', token[0] != 'r', isdigit, the   *)
(* '0x' prefix) and int() are computed as the code computes them.  Python *)
(* integers are unbounded; the values reached here stay far below TLC's   *)
(* integer range.  The program is Python 2 (print statement, line 343):   *)
(* '/' on integers is floor division and an ordering comparison between a *)
(* str and an int is defined (the number is the smaller).                 *)
(***************************************************************************)
EXTENDS Integers, Sequences, FiniteSets, TLC

VARIABLES
    fixups,       \* CodeBuilder.fixups: sequence of fixup records
    code,         \* CodeBuilder.code: the image, code[i + 1] is Python's code[i]
    labels,       \* CodeBuilder.labels: function from label names to addresses
    currentPc,    \* CodeBuilder.currentPc
    lexer,        \* Parser.lexer: the unread input, the pushback stack, lineno
    locals,       \* the local variables of the last _parseInstruction call
    pc,           \* position in the main sequence (lines 346-357)
    fixupIdx,     \* position of the for loop of doFixups (1-based)
    exc,          \* the uncaught exception that ended the run, or NoExc
    outputOpened, \* the output file has been opened for writing (line 355)
    outputFile    \* the lines written to the output file

vars == <<fixups, code, labels, currentPc, lexer, locals, pc, fixupIdx, exc,
          outputOpened, outputFile>>

-----------------------------------------------------------------------------
(* Bounds of the model. *)

\* The source files explored have at most MaxLines lines.
MaxLines == 3

\* The source files explored by EncSpec have at most MaxEncLines lines.
MaxEncLines == 1

-----------------------------------------------------------------------------
(* Python integer arithmetic. *)

RECURSIVE Pow2(_)
Pow2(n) == IF n = 0 THEN 1 ELSE 2 * Pow2(n - 1)

\* x << n
Shl(x, n) == x * Pow2(n)

\* x >> n (an arithmetic shift: floor division)
Shr(x, n) == x \div Pow2(n)

\* x | y for x, y >= 0
RECURSIVE BitOr(_, _)
BitOr(x, y) ==
    IF x = 0 THEN y
    ELSE IF y = 0 THEN x
    ELSE (IF x % 2 = 1 \/ y % 2 = 1 THEN 1 ELSE 0) + 2 * BitOr(x \div 2, y \div 2)

\* x & m for m >= 0; x may be negative (two's complement of unbounded width)
RECURSIVE BitAnd(_, _)
BitAnd(x, m) ==
    IF m = 0 THEN 0
    ELSE (IF x % 2 = 1 /\ m % 2 = 1 THEN 1 ELSE 0) + 2 * BitAnd(x \div 2, m \div 2)

\* x & ~m for m >= 0
BitAndNot(x, m) == x - BitAnd(x, m)

-----------------------------------------------------------------------------
(* Python values that reach an ordering comparison with an int: emitLui is *)
(* called with an int (lines 93, 322) and with a str (line 301).           *)

PyNum(n) == [isStr |-> FALSE, n |-> n, s |-> <<>>]
PyStr(s) == [isStr |-> TRUE, n |-> 0, s |-> s]

\* v > n in Python 2: a str is greater than every number
PyGt(v, n) == IF v.isStr THEN TRUE ELSE v.n > n

\* v < n in Python 2: a str is never less than a number
PyLt(v, n) == IF v.isStr THEN FALSE ELSE v.n < n

-----------------------------------------------------------------------------
(* Exceptions. *)

NoExc == [type |-> "", msg |-> "", lineno |-> 0]

\* AssembleError(msg): lineno defaults to -1.  msg is the literal the code
\* starts the message with; the operand text appended to it is left out.
AssembleError(msg) == [type |-> "AssembleError", msg |-> msg, lineno |-> -1]

AssembleErrorAt(msg, lineno) == [type |-> "AssembleError", msg |-> msg, lineno |-> lineno]

\* int() of a string that is not a number
ValueError == [type |-> "ValueError", msg |-> "invalid literal for int()", lineno |-> 0]

\* s[0] of an empty string
IndexError == [type |-> "IndexError", msg |-> "string index out of range", lineno |-> 0]

-----------------------------------------------------------------------------
(* Strings and int(). *)

Digits == {"0", "1", "2", "3", "4", "5", "6", "7", "8", "9"}

HexDigits == Digits \cup {"a", "b", "c", "d", "e", "f", "A", "B", "C", "D", "E", "F"}

DigitValue(c) ==
    CASE c = "0" -> 0 [] c = "1" -> 1 [] c = "2" -> 2 [] c = "3" -> 3
      [] c = "4" -> 4 [] c = "5" -> 5 [] c = "6" -> 6 [] c = "7" -> 7
      [] c = "8" -> 8 [] c = "9" -> 9
      [] c \in {"a", "A"} -> 10 [] c \in {"b", "B"} -> 11
      [] c \in {"c", "C"} -> 12 [] c \in {"d", "D"} -> 13
      [] c \in {"e", "E"} -> 14 [] c \in {"f", "F"} -> 15

\* str.isdigit(): non-empty and every character a decimal digit
IsDigit(s) == s # <<>> /\ \A i \in 1..Len(s) : s[i] \in Digits

RECURSIVE DigitsValue(_, _, _)
DigitsValue(s, base, acc) ==
    IF s = <<>> THEN acc
    ELSE DigitsValue(Tail(s), base, acc * base + DigitValue(Head(s)))

\* int(s, base) for base 10 or 16: an optional '-', for base 16 an optional
\* '0x', then one or more digits of the base; anything else raises ValueError.
PyInt(s, base) ==
    LET neg == s # <<>> /\ Head(s) = "-"
        unsigned == IF neg THEN Tail(s) ELSE s
        prefixed == base = 16 /\ Len(unsigned) >= 2 /\ SubSeq(unsigned, 1, 2) = <<"0", "x">>
        body == IF prefixed THEN SubSeq(unsigned, 3, Len(unsigned)) ELSE unsigned
        ok == /\ body # <<>>
              /\ \A i \in 1..Len(body) :
                    body[i] \in (IF base = 16 THEN HexDigits ELSE Digits)
    IN  IF ok
        THEN [val |-> (IF neg THEN -1 ELSE 1) * DigitsValue(body, base, 0), exc |-> NoExc]
        ELSE [val |-> 0, exc |-> ValueError]

-----------------------------------------------------------------------------
(* The lexer (shlex.shlex(stream), commenters '#', wordchars + '_:-').      *)
(* The unread input is a sequence of tokens in which NL marks a newline;   *)
(* every source line ends with one.  lineno counts the newlines read.      *)

NL == <<"\n">>
Comma == <<",">>
LParen == <<"(">>
RParen == <<")">>
Punctuation == {Comma, LParen, RParen}

\* The empty token: get_token() at the end of the input
EofToken == <<>>

NewLexer == [stream |-> <<>>, pushback |-> <<>>, lineno |-> 1, eof |-> FALSE]

RECURSIVE SkipNewlines(_)
SkipNewlines(lex) ==
    IF lex.stream # <<>> /\ Head(lex.stream) = NL
    THEN SkipNewlines([lex EXCEPT !.stream = Tail(@), !.lineno = @ + 1])
    ELSE lex

\* shlex.read_token: whitespace before the token is skipped; a word ends at the
\* first character that is not a word character, and when that character is
\* white space (here: the newline) it is read with the word; a punctuation
\* character is a token by itself.  At the end of the input the token is ''.
ReadToken(lex) ==
    LET l == SkipNewlines(lex)
    IN  IF l.stream = <<>>
        THEN [tok |-> EofToken, lex |-> [l EXCEPT !.eof = TRUE]]
        ELSE LET tok == Head(l.stream)
                 rest == Tail(l.stream)
                 eats == tok \notin Punctuation /\ rest # <<>> /\ Head(rest) = NL
             IN  [tok |-> tok,
                  lex |-> [l EXCEPT !.stream = IF eats THEN Tail(rest) ELSE rest,
                                    !.lineno = IF eats THEN @ + 1 ELSE @]]

\* shlex.get_token: a pushed back token first
GetToken(lex) ==
    IF lex.pushback # <<>>
    THEN [tok |-> Head(lex.pushback), lex |-> [lex EXCEPT !.pushback = Tail(@)]]
    ELSE ReadToken(lex)

\* shlex.push_token
PushToken(lex, tok) == [lex EXCEPT !.pushback = <<tok>> \o @]

-----------------------------------------------------------------------------
(* CodeBuilder.  A builder value b is the record of the four fields; an     *)
(* operation that can raise returns [b, exc], b being the builder as the   *)
(* exception left it.                                                      *)

FIXUP_UNCONDITIONAL == 0
FIXUP_CONDITIONAL == 1
FIXUP_LEA == 2
FIXUP_LABEL_ADDR == 3

NewBuilder == [fixups |-> <<>>, code |-> <<>>, labels |-> <<>>, currentPc |-> 0]

Done(b) == [b |-> b, exc |-> NoExc]
Raised(b, e) == [b |-> b, exc |-> e]

GetPc(b) == b.currentPc

SetOrigin(b, where) ==
    IF where < b.currentPc
    THEN Raised(b, AssembleError("overlapping origin"))
    ELSE Done([b EXCEPT !.currentPc = where])

EmitData(b, value) ==
    [b EXCEPT !.code = Append(@, value), !.currentPc = @ + 1]

Emit(b, type, instr) == EmitData(b, BitOr(Shl(type, 13), instr))

EmitArith(b, operation, dest, opa, opb) ==
    Emit(b, 0, BitOr(BitOr(BitOr(Shl(operation, 9), Shl(opb, 6)), Shl(opa, 3)), dest))

EmitLoad(b, dest, ptr, offset) ==
    Emit(b, 1, BitOr(BitOr(Shl(offset, 6), Shl(ptr, 3)), dest))

EmitStore(b, src, ptr, offset) ==
    Emit(b, 2, BitOr(BitOr(BitOr(Shl(BitAnd(Shr(offset, 3), 15), 9), Shl(src, 6)),
                           Shl(ptr, 3)),
                     BitAnd(offset, 7)))

EmitRegisterBranch(b, reg, link) ==
    Emit(b, 7, BitOr(Shl(link, 12), Shl(reg, 6)))

\* The range test of emitLui (line 66); value is a Python value
LuiOutOfRange(value) == PyGt(value, 512) \/ PyLt(value, -512)

EmitLui(b, dest, value) ==
    IF LuiOutOfRange(value)
    THEN Raised(b, AssembleError("immediate value out of range "))
    ELSE Done(Emit(b, 4, BitOr(Shl(BitAnd(value.n, 1023), 3), dest)))

\* The range test of emitAddi (line 72)
AddiOutOfRange(value) == value > 63 \/ value < -63

EmitAddi(b, dest, opa, value) ==
    IF AddiOutOfRange(value)
    THEN Raised(b, AssembleError("immediate value out of range "))
    ELSE Done(Emit(b, 3, BitOr(BitOr(Shl(BitAnd(value, 127), 6), Shl(opa, 3)), dest)))

\* The tuple ( type, len(self.code), self.getPc(), target, lineno )
Fixup(b, type, target, lineno) ==
    [type |-> type, codeOffset |-> Len(b.code), address |-> GetPc(b),
     label |-> target, lineno |-> lineno]

AddFixup(b, type, target, lineno) ==
    [b EXCEPT !.fixups = Append(@, Fixup(b, type, target, lineno))]

EmitUnconditionalBranch(b, lineno, target, link) ==
    Emit(AddFixup(b, FIXUP_UNCONDITIONAL, target, lineno), 6, Shl(link, 12))

EmitConditionalBranch(b, lineno, target, condition) ==
    Emit(AddFixup(b, FIXUP_CONDITIONAL, target, lineno), 5, Shl(condition, 10))

\* A faulty variant of EmitLabel, used to test the properties: no test for a name already defined
EmitLabel_Overwrite(b, label) ==
    Done([b EXCEPT !.labels = (label :> GetPc(b)) @@ @])

EmitLabel(b, label) ==
    IF label \in DOMAIN b.labels
    THEN Raised(b, AssembleError("redefined label "))
    ELSE Done([b EXCEPT !.labels = (label :> GetPc(b)) @@ @])

EmitLea(b, lineno, reg, target) ==
    LET lui == EmitLui(AddFixup(b, FIXUP_LEA, target, lineno), reg, PyNum(0))
    IN  IF lui.exc # NoExc THEN lui ELSE EmitAddi(lui.b, reg, reg, 0)

EmitLabelDataRef(b, lineno, target) ==
    EmitData(AddFixup(b, FIXUP_LABEL_ADDR, target, lineno), 0)

\* A faulty variant of BranchOffset, used to test the properties: the branch's own word is not counted
BranchOffset_NoBias(targetAddress, address) == targetAddress - address

\* offset = targetAddress - address - 1 (line 109)
BranchOffset(targetAddress, address) == targetAddress - address - 1

\* The range tests of doFixups (lines 118 and 124)
UnconditionalOutOfRange(offset) == offset > 32767 \/ offset < -32767
ConditionalOutOfRange(offset) == offset > 511 \/ offset < -511

\* The patches of doFixups: the new value of a word
PatchLui(word, targetAddress) ==
    BitOr(word, Shl(BitAnd(Shr(targetAddress, 6), 1023), 3))
PatchAddi(word, targetAddress) ==
    BitOr(word, Shl(BitAnd(targetAddress, 63), 6))
PatchUnconditional(word, offset) ==
    BitOr(BitAndNot(word, 4095), BitAnd(offset, 4095))
PatchConditional(word, offset) ==
    BitOr(BitAndNot(word, 1023), BitAnd(offset, 1023))

\* One iteration of the loop of doFixups, for the fixup f
DoFixup(b, f) ==
    IF f.label \notin DOMAIN b.labels
    THEN Raised(b, AssembleErrorAt("unknown label ", f.lineno))
    ELSE
    LET targetAddress == b.labels[f.label]
        offset == BranchOffset(targetAddress, f.address)
        i == f.codeOffset + 1
    IN  IF f.type = FIXUP_LEA
        THEN Done([b EXCEPT !.code[i] = PatchLui(@, targetAddress),
                            !.code[i + 1] = PatchAddi(@, targetAddress)])
        ELSE IF f.type = FIXUP_LABEL_ADDR
        THEN Done([b EXCEPT !.code[i] = targetAddress])
        ELSE IF f.type = FIXUP_UNCONDITIONAL
        THEN IF UnconditionalOutOfRange(offset)
             THEN Raised(b, AssembleErrorAt("fixup out of range", f.lineno))
             ELSE Done([b EXCEPT !.code[i] = PatchUnconditional(@, offset)])
        ELSE IF ConditionalOutOfRange(offset)
             THEN Raised(b, AssembleErrorAt("fixup out of range", f.lineno))
             ELSE Done([b EXCEPT !.code[i] = PatchConditional(@, offset)])

\* '%04x' % x for x >= 0: lowercase hexadecimal, zero-padded to four digits
HexDigit(d) ==
    CASE d = 0 -> "0" [] d = 1 -> "1" [] d = 2 -> "2" [] d = 3 -> "3"
      [] d = 4 -> "4" [] d = 5 -> "5" [] d = 6 -> "6" [] d = 7 -> "7"
      [] d = 8 -> "8" [] d = 9 -> "9" [] d = 10 -> "a" [] d = 11 -> "b"
      [] d = 12 -> "c" [] d = 13 -> "d" [] d = 14 -> "e" [] d = 15 -> "f"

RECURSIVE Hex(_)
Hex(x) == IF x < 16 THEN <<HexDigit(x)>> ELSE Append(Hex(x \div 16), HexDigit(x % 16))

RECURSIVE ZeroPad(_, _)
ZeroPad(s, width) == IF Len(s) >= width THEN s ELSE ZeroPad(<<"0">> \o s, width)

\* dumpHex: the lines written, one per word
DumpHex(b) == [i \in 1..Len(b.code) |-> ZeroPad(Hex(b.code[i]), 4)]

-----------------------------------------------------------------------------
(* Parser. *)

FORM_THREE_REG == 0
FORM_TWO_REG == 1
FORM_LOAD == 2
FORM_STORE == 3
FORM_ADDI == 4
FORM_LUI == 5
FORM_CONDITIONAL_BRANCH == 6
FORM_UNCONDITIONAL_BRANCH == 7
FORM_REG_BRANCH == 8
FORM_LDI == 9
FORM_NOP == 10
FORM_LEA == 11

\* Parser.INSTRUCTIONS: mnemonic -> <<form, param>>
INSTRUCTIONS ==
    (<<"a", "n", "d">> :> <<FORM_THREE_REG, 0>>) @@
    (<<"o", "r">> :> <<FORM_THREE_REG, 1>>) @@
    (<<"s", "h", "l">> :> <<FORM_THREE_REG, 2>>) @@
    (<<"s", "h", "r">> :> <<FORM_THREE_REG, 3>>) @@
    (<<"a", "d", "d">> :> <<FORM_THREE_REG, 4>>) @@
    (<<"s", "u", "b">> :> <<FORM_THREE_REG, 5>>) @@
    (<<"x", "o", "r">> :> <<FORM_THREE_REG, 6>>) @@
    (<<"n", "o", "t">> :> <<FORM_TWO_REG, 7>>) @@
    (<<"r", "o", "l">> :> <<FORM_TWO_REG, 10>>) @@
    (<<"r", "o", "r">> :> <<FORM_TWO_REG, 11>>) @@
    (<<"a", "d", "c">> :> <<FORM_THREE_REG, 12>>) @@
    (<<"s", "b", "c">> :> <<FORM_THREE_REG, 13>>) @@
    (<<"l", "o", "a", "d">> :> <<FORM_LOAD, 0>>) @@
    (<<"s", "t", "o", "r", "e">> :> <<FORM_STORE, 0>>) @@
    (<<"a", "d", "d", "i">> :> <<FORM_ADDI, 0>>) @@
    (<<"l", "u", "i">> :> <<FORM_LUI, 0>>) @@
    (<<"j", "u", "m", "p">> :> <<FORM_UNCONDITIONAL_BRANCH, 0>>) @@
    (<<"c", "a", "l", "l">> :> <<FORM_UNCONDITIONAL_BRANCH, 1>>) @@
    (<<"j", "u", "m", "p", "r">> :> <<FORM_REG_BRANCH, 0>>) @@
    (<<"c", "a", "l", "l", "r">> :> <<FORM_REG_BRANCH, 1>>) @@
    (<<"b", "c", "c">> :> <<FORM_CONDITIONAL_BRANCH, 6>>) @@
    (<<"b", "c", "s">> :> <<FORM_CONDITIONAL_BRANCH, 2>>) @@
    (<<"b", "z", "c">> :> <<FORM_CONDITIONAL_BRANCH, 4>>) @@
    (<<"b", "z", "s">> :> <<FORM_CONDITIONAL_BRANCH, 0>>) @@
    (<<"b", "n", "c">> :> <<FORM_CONDITIONAL_BRANCH, 5>>) @@
    (<<"b", "n", "s">> :> <<FORM_CONDITIONAL_BRANCH, 1>>) @@
    (<<"b", "o", "c">> :> <<FORM_CONDITIONAL_BRANCH, 7>>) @@
    (<<"b", "o", "s">> :> <<FORM_CONDITIONAL_BRANCH, 3>>) @@
    (<<"l", "d", "i">> :> <<FORM_LDI, 0>>) @@
    (<<"n", "o", "p">> :> <<FORM_NOP, 0>>) @@
    (<<"l", "e", "a">> :> <<FORM_LEA, 0>>)

EndLabel == <<"_", "_", "e", "n", "d">>

(* The parser is written as a chain of steps on a parse state s: the lexer, *)
(* the builder, the exception raised so far (a step after a raise does     *)
(* nothing: the exception leaves _parseInstruction), the local variables,  *)
(* the token last read and the value last returned.                        *)

\* The local variables of _parseInstruction that the claims read: the first
\* token, the form and param found for it, the register operands, the number
\* parsed (offset, immediate or address) in value, the token taken as it is
\* (the label of a branch, lea or definition, the immediate of lui) in target,
\* and whether the call of the builder was reached.  form is -1 when the first
\* token is not a mnemonic.
NoLocals ==
    [token |-> <<>>, form |-> -1, param |-> 0, dest |-> 0, opa |-> 0,
     opb |-> 0, value |-> 0, target |-> <<>>, called |-> FALSE]

ParseState(lex, b) ==
    [lex |-> lex, b |-> b, exc |-> NoExc, locals |-> NoLocals, tok |-> <<>>,
     val |-> 0, more |-> TRUE]

Raise(s, e) == [s EXCEPT !.exc = e]

\* token = self.lexer.get_token()
Got(s, got) == [s EXCEPT !.lex = got.lex, !.tok = got.tok]
Get(s) == IF s.exc # NoExc THEN s ELSE Got(s, GetToken(s.lex))

\* self.lexer.push_token(token) for the token last read
Push(s) == IF s.exc # NoExc THEN s ELSE [s EXCEPT !.lex = PushToken(@, s.tok)]

\* x = <the value last returned>
Keep(x, s) == IF s.exc # NoExc THEN s ELSE [s EXCEPT !.locals[x] = s.val]

\* x = <the token last read>
KeepToken(x, s) == IF s.exc # NoExc THEN s ELSE [s EXCEPT !.locals[x] = s.tok]

\* A call of the builder: r is what the builder operation returns
Called(s, r) == [s EXCEPT !.b = r.b, !.exc = r.exc, !.locals.called = TRUE]
Call(s, r) == IF s.exc # NoExc THEN s ELSE Called(s, r)

\* Parser._match
Expect(s, want) ==
    IF s.exc = NoExc /\ s.tok # want
    THEN Raise(s, AssembleError("unexpected token, wanted "))
    ELSE s
Match(s, want) == Expect(Get(s), want)

\* The test of _parseRegister on the index (line 158)
BadRegisterIndex(id) == id < 0 \/ id > 7

\* Parser._parseRegister, the token read
RegisterOf(s, id) ==
    IF s.exc # NoExc THEN s
    ELSE IF s.tok = <<>> THEN Raise(s, IndexError)
    ELSE IF s.tok[1] # "r" THEN Raise(s, AssembleError("unexpected token "))
    ELSE IF id.exc # NoExc THEN Raise(s, id.exc)
    ELSE IF BadRegisterIndex(id.val) THEN Raise(s, AssembleError("bad register index"))
    ELSE [s EXCEPT !.val = id.val]

TokenIndex(s) == PyInt(IF s.tok = <<>> THEN <<>> ELSE Tail(s.tok), 10)

ParseRegisterToken(s) == RegisterOf(s, TokenIndex(s))

ParseRegister(s) == ParseRegisterToken(Get(s))

\* Parser._parseNumber, the token read
NumberOf(tok) ==
    IF Len(tok) >= 2 /\ SubSeq(tok, 1, 2) = <<"0", "x">>
    THEN PyInt(SubSeq(tok, 3, Len(tok)), 16)
    ELSE PyInt(tok, 10)

Returned(s, n) ==
    IF s.exc # NoExc THEN s
    ELSE IF n.exc # NoExc THEN Raise(s, n.exc)
    ELSE [s EXCEPT !.val = n.val]

ParseNumberToken(s) == Returned(s, NumberOf(s.tok))

ParseNumber(s) == ParseNumberToken(Get(s))

\* opcode reg, reg, reg
CallArith(s) ==
    Call(s, Done(EmitArith(s.b, s.locals.param, s.locals.dest, s.locals.opa,
                           s.locals.opb)))

ParseThreeReg(s) ==
    CallArith(Keep("opb", ParseRegister(Match(
              Keep("opa", ParseRegister(Match(
              Keep("dest", ParseRegister(s)), Comma))), Comma))))

\* opcode reg, reg
ParseTwoReg(s) ==
    CallArith(Keep("opa", ParseRegister(Match(
              Keep("dest", ParseRegister(s)), Comma))))

\* The optional offset of a load or store, the lookahead token read:
\* offset(reg) or (reg)
OffsetOf(s) ==
    IF s.exc # NoExc THEN s
    ELSE IF s.tok # LParen
    THEN IF ~IsDigit(s.tok)
         THEN Raise(s, AssembleError("unexpected token"))
         ELSE Match(ParseNumber(Push(s)), LParen)
    ELSE [s EXCEPT !.val = 0]

ParseOffset(s) == OffsetOf(Get(s))

\* opcode reg, offset(reg)   opcode reg, (reg)
CallLoadStore(s) ==
    Call(s, Done(IF s.locals.form = FORM_LOAD
                 THEN EmitLoad(s.b, s.locals.dest, s.locals.opa, s.locals.value)
                 ELSE EmitStore(s.b, s.locals.dest, s.locals.opa, s.locals.value)))

ParseLoadStore(s) ==
    CallLoadStore(Match(Keep("opa", ParseRegister(
                  Keep("value", ParseOffset(Match(
                  Keep("dest", ParseRegister(s)), Comma))))), RParen))

\* opcode reg, reg, immediate
CallAddi(s) == Call(s, EmitAddi(s.b, s.locals.dest, s.locals.opa, s.locals.value))

ParseAddi(s) ==
    CallAddi(Keep("value", ParseNumber(Match(
             Keep("opa", ParseRegister(Match(
             Keep("dest", ParseRegister(s)), Comma))), Comma))))

\* The immediate of lui as the parser hands it to emitLui (lines 300-301):
\* the token itself, a str
LuiOperand(tok) == PyStr(tok)

\* opcode reg, immediate
CallLui(s) == Call(s, EmitLui(s.b, s.locals.dest, LuiOperand(s.locals.target)))

ParseLui(s) ==
    CallLui(KeepToken("target", Get(Match(Keep("dest", ParseRegister(s)), Comma))))

\* A faulty variant of CallBranch, used to test the properties: the label must be defined when the branch is scanned
CallBranch_Eager(s) ==
    IF s.exc = NoExc /\ s.locals.target \notin DOMAIN s.b.labels
    THEN Raise(s, AssembleError("unknown label "))
    ELSE Call(s, Done(IF s.locals.form = FORM_CONDITIONAL_BRANCH
                      THEN EmitConditionalBranch(s.b, s.lex.lineno, s.locals.target,
                                                 s.locals.param)
                      ELSE EmitUnconditionalBranch(s.b, s.lex.lineno, s.locals.target,
                                                   s.locals.param)))

\* opcode label (conditional and unconditional branches); lineno is
\* self.lexer.lineno when the builder is called
CallBranch(s) ==
    Call(s, Done(IF s.locals.form = FORM_CONDITIONAL_BRANCH
                 THEN EmitConditionalBranch(s.b, s.lex.lineno, s.locals.target,
                                            s.locals.param)
                 ELSE EmitUnconditionalBranch(s.b, s.lex.lineno, s.locals.target,
                                              s.locals.param)))

ParseBranch(s) == CallBranch(KeepToken("target", Get(s)))

\* opcode reg
CallRegisterBranch(s) ==
    Call(s, Done(EmitRegisterBranch(s.b, s.locals.dest, s.locals.param)))

ParseRegBranch(s) == CallRegisterBranch(Keep("dest", ParseRegister(s)))

\* The range test of ldi (line 319)
LdiOutOfRange(value) == value > 32767 \/ value < -32767

\* The test that decides whether ldi emits the addi (line 323)
LdiNeedsAddi(value) == BitAnd(value, 31) # 0

\* The builder calls of ldi (lines 322-324), lui being what emitLui returns
LdiAddi(lui, dest, value) ==
    IF lui.exc # NoExc THEN lui
    ELSE IF LdiNeedsAddi(value) THEN EmitAddi(lui.b, dest, dest, value % 64)
    ELSE lui

EmitLdi(b, dest, value) ==
    LdiAddi(EmitLui(b, dest, PyNum(value \div 64)), dest, value)

\* pseudo op load immediate
CallLdi(s) ==
    IF s.exc # NoExc THEN s
    ELSE IF LdiOutOfRange(s.locals.value)
    THEN Raise(s, AssembleError("constant out of range"))
    ELSE Call(s, EmitLdi(s.b, s.locals.dest, s.locals.value))

ParseLdi(s) ==
    CallLdi(Keep("value", ParseNumber(Match(Keep("dest", ParseRegister(s)), Comma))))

\* lea reg, label
CallLea(s) == Call(s, EmitLea(s.b, s.lex.lineno, s.locals.dest, s.locals.target))

ParseLea(s) ==
    CallLea(KeepToken("target", Get(Match(Keep("dest", ParseRegister(s)), Comma))))

\* One element of the list of res, the lookahead token read (lines 232-240)
CallData(s) == Call(s, Done(EmitData(s.b, s.val)))

ResElement(s) ==
    IF s.exc # NoExc THEN s
    ELSE IF s.tok = <<>> THEN Raise(s, IndexError)
    ELSE IF s.tok[1] \in Digits THEN CallData(ParseNumber(Push(s)))
    ELSE Call(s, Done(EmitLabelDataRef(s.b, s.lex.lineno, s.tok)))

\* The loop of the res directive (lines 231-245)
RECURSIVE ParseRes(_)
ResNext(s) ==
    IF s.exc # NoExc THEN s
    ELSE IF s.tok # Comma THEN Push(s)
    ELSE ParseRes(s)

ParseRes(s) == ResNext(Get(ResElement(Get(s))))

\* org address
CallSetOrigin(s) == Call(s, SetOrigin(s.b, s.locals.value))

ParseOrg(s) == CallSetOrigin(Keep("value", ParseNumber(s)))

\* name:
LabelName(token) == SubSeq(token, 1, Len(token) - 1)

ParseLabel(s) == Call(s, EmitLabel(s.b, LabelName(s.locals.token)))

\* The instruction forms (lines 251-333)
ParseForm(s) ==
    CASE s.locals.form = FORM_THREE_REG -> ParseThreeReg(s)
      [] s.locals.form = FORM_TWO_REG -> ParseTwoReg(s)
      [] s.locals.form \in {FORM_LOAD, FORM_STORE} -> ParseLoadStore(s)
      [] s.locals.form = FORM_ADDI -> ParseAddi(s)
      [] s.locals.form = FORM_LUI -> ParseLui(s)
      [] s.locals.form \in {FORM_CONDITIONAL_BRANCH, FORM_UNCONDITIONAL_BRANCH} ->
            ParseBranch(s)
      [] s.locals.form = FORM_REG_BRANCH -> ParseRegBranch(s)
      [] s.locals.form = FORM_LDI -> ParseLdi(s)
      [] s.locals.form = FORM_NOP -> Call(s, Done(EmitArith(s.b, 0, 0, 0, 0)))
      [] s.locals.form = FORM_LEA -> ParseLea(s)
      [] OTHER -> Raise(s, AssembleError("internal error: unknown instruction format"))

\* form, param = self.INSTRUCTIONS[token]
Lookup(s) ==
    [s EXCEPT !.locals.form = INSTRUCTIONS[s.tok][1],
              !.locals.param = INSTRUCTIONS[s.tok][2]]

\* except AssembleError as e: e.lineno = self.lexer.lineno; raise
Reraise(s) ==
    IF s.exc.type = "AssembleError" THEN [s EXCEPT !.exc.lineno = s.lex.lineno] ELSE s

\* The body of the try of _parseInstruction for a first token that is not ''
ParseStatement(s) ==
    IF s.tok[Len(s.tok)] = ":" THEN ParseLabel(s)
    ELSE IF s.tok = <<"r", "e", "s">> THEN ParseRes(s)
    ELSE IF s.tok = <<"o", "r", "g">> THEN ParseOrg(s)
    ELSE IF s.tok \in DOMAIN INSTRUCTIONS THEN ParseForm(Lookup(s))
    ELSE Raise(s, AssembleError("bad instruction"))

\* Parser._parseInstruction, the first token read: more is the value returned
\* (False at the end of the input), exc the exception that leaves it.
Statement(s) ==
    IF s.tok = <<>>
    THEN [s EXCEPT !.more = FALSE]
    ELSE Reraise(ParseStatement([s EXCEPT !.locals.token = s.tok]))

ParseInstruction(lex, b) == Statement(Get(ParseState(lex, b)))

-----------------------------------------------------------------------------
(* The source files explored.  A file is a sequence of lines; each line is  *)
(* the tokens of one statement (or of a label and a statement) and NL.     *)

Line(tokens) == tokens \o <<NL>>

\* The register token rN
Reg(n) == <<"r", HexDigit(n)>>

\* The label definition token name:
Def(name) == Append(name, ":")

\* The label names the lines define and refer to
LabelNames == {<<"a">>, EndLabel}

\* The addresses of the org lines
OrgOperands == {<<"1">>, <<"6", "0", "0">>, <<"0", "x", "b", "b", "8">>, <<"4", "0", "0", "0", "0">>, <<"6", "5", "5", "3", "6">>}

Statements ==
    {Line(<<Def(l)>>) : l \in LabelNames}
    \cup {Line(<<<<"o", "r", "g">>, n>>) : n \in OrgOperands}
    \cup {Line(<<m, l>>) : m \in {<<"j", "u", "m", "p">>, <<"c", "a", "l", "l">>, <<"b", "z", "s">>, <<"b", "o", "c">>}, l \in LabelNames}
    \cup {Line(<<<<"l", "e", "a">>, Reg(3), Comma, l>>) : l \in LabelNames}
    \cup {Line(<<<<"r", "e", "s">>, l>>) : l \in LabelNames}
    \cup {Line(<<<<"r", "e", "s">>, <<"7">>, Comma, <<"a">>>>),
          Line(<<Def(<<"a">>), <<"n", "o", "p">>>>),
          Line(<<<<"n", "o", "p">>>>),
          Line(<<<<"n", "o", "p">>, Reg(1)>>),
          Line(<<<<"a", "d", "d">>, Reg(0), Comma, Reg(1)>>),
          Line(<<<<"o", "r", "g">>, <<"x">>>>),
          Line(<<<<"j", "u", "m", "p">>>>)}

\* The operands of the lines EncSpec explores
EncRegs == {Reg(0), Reg(7)}
EncOffsets == {<<"0">>, <<"1">>, <<"6", "3">>, <<"6", "4">>, <<"1", "2", "7">>, <<"1", "2", "8">>}
EncAddiOperands == {<<"-", "6", "4">>, <<"-", "6", "3">>, <<"-", "1">>, <<"0">>, <<"1">>, <<"6", "3">>, <<"6", "4">>, <<"0", "x", "3", "f">>}
EncLuiOperands == {<<"-", "5", "1", "3">>, <<"-", "5", "1", "2">>, <<"-", "1">>, <<"0">>, <<"5">>, <<"5", "1", "1">>, <<"5", "1", "2">>, <<"5", "1", "3">>}
EncLdiOperands ==
    {<<"-", "3", "2", "7", "6", "8">>, <<"-", "3", "2", "7", "6", "7">>, <<"-", "3", "3">>, <<"-", "3", "2">>, <<"-", "1">>, <<"0">>, <<"1">>, <<"3", "1">>, <<"3", "2">>, <<"3", "3">>,
     <<"6", "4">>, <<"9", "6">>, <<"0", "x", "7", "f", "f", "f">>, <<"3", "2", "7", "6", "8">>}

EncStatements ==
    {Line(<<m, d, Comma, a, Comma, c>>) :
        m \in {<<"a", "n", "d">>, <<"a", "d", "d">>, <<"s", "b", "c">>}, d \in EncRegs, a \in EncRegs, c \in EncRegs}
    \cup {Line(<<m, d, Comma, a>>) : m \in {<<"n", "o", "t">>, <<"r", "o", "r">>}, d \in EncRegs, a \in EncRegs}
    \cup {Line(<<m, d, Comma, o, LParen, p, RParen>>) :
            m \in {<<"l", "o", "a", "d">>, <<"s", "t", "o", "r", "e">>}, d \in EncRegs, o \in EncOffsets, p \in EncRegs}
    \cup {Line(<<m, d, Comma, LParen, p, RParen>>) :
            m \in {<<"l", "o", "a", "d">>, <<"s", "t", "o", "r", "e">>}, d \in EncRegs, p \in EncRegs}
    \cup {Line(<<<<"a", "d", "d", "i">>, d, Comma, a, Comma, v>>) :
            d \in EncRegs, a \in EncRegs, v \in EncAddiOperands}
    \cup {Line(<<<<"l", "u", "i">>, d, Comma, v>>) : d \in EncRegs, v \in EncLuiOperands}
    \cup {Line(<<m, d>>) : m \in {<<"j", "u", "m", "p", "r">>, <<"c", "a", "l", "l", "r">>}, d \in EncRegs}
    \cup {Line(<<<<"l", "d", "i">>, d, Comma, v>>) : d \in EncRegs, v \in EncLdiOperands}
    \cup {Line(<<<<"n", "o", "p">>>>),
          Line(<<<<"j", "u", "m", "p">>, <<"a">>>>),
          Line(<<Def(<<"a">>), <<"n", "o", "p">>>>),
          Line(<<<<"a", "d", "d">>, Reg(8), Comma, Reg(1), Comma, Reg(2)>>),
          Line(<<<<"l", "o", "a", "d">>, Reg(1), Comma, <<"0", "x", "1", "0">>, LParen, Reg(2), RParen>>)}

-----------------------------------------------------------------------------
(* The run: builder = CodeBuilder(); parser.parseSource(builder);           *)
(* builder.doFixups(); outputFile = open(...); builder.dumpHex(outputFile). *)

Builder == [fixups |-> fixups, code |-> code, labels |-> labels, currentPc |-> currentPc]

SetBuilder(b) ==
    /\ fixups' = b.fixups
    /\ code' = b.code
    /\ labels' = b.labels
    /\ currentPc' = b.currentPc

Init ==
    /\ fixups = NewBuilder.fixups
    /\ code = NewBuilder.code
    /\ labels = NewBuilder.labels
    /\ currentPc = NewBuilder.currentPc
    /\ lexer = NewLexer
    /\ locals = NoLocals
    /\ pc = "parseSource"
    /\ fixupIdx = 1
    /\ exc = NoExc
    /\ outputOpened = FALSE
    /\ outputFile = <<>>

\* The lines of the file read so far
LinesRead(lex) ==
    lex.lineno - 1 + Cardinality({i \in DOMAIN lex.stream : lex.stream[i] = NL})

\* No statement is left in what has been read of the file
AtEndOfLine(lex) ==
    /\ ~lex.eof
    /\ lex.pushback = <<>>
    /\ \A i \in DOMAIN lex.stream : lex.stream[i] = NL

\* What the file holds next: one of the lines, or nothing more
NextLines(lines, maxLines) ==
    IF AtEndOfLine(lexer) /\ LinesRead(lexer) < maxLines THEN lines \cup {<<>>} ELSE {<<>>}

\* One iteration of the loop of parseSource in which _parseInstruction
\* returns True or raises; r is what _parseInstruction did
Scanned(r) ==
    /\ r.more
    /\ lexer' = r.lex
    /\ SetBuilder(r.b)
    /\ locals' = r.locals
    /\ exc' = r.exc

ParseInstructionStep(lines, maxLines) ==
    /\ pc = "parseSource"
    /\ exc = NoExc
    /\ \E line \in NextLines(lines, maxLines) :
          Scanned(ParseInstruction([lexer EXCEPT !.stream = @ \o line], Builder))
    /\ UNCHANGED <<pc, fixupIdx, outputOpened, outputFile>>

\* The last iteration (_parseInstruction returns False), then
\* self.builder.emitLabel('__end') and inputFile.close(); e is what emitLabel did
Ended(e) ==
    /\ SetBuilder(e.b)
    /\ exc' = e.exc
    /\ pc' = IF e.exc = NoExc THEN "doFixups" ELSE pc

EndOfSource(r) ==
    /\ ~r.more
    /\ lexer' = r.lex
    /\ locals' = r.locals
    /\ Ended(EmitLabel(r.b, EndLabel))

ParseSourceEnd ==
    /\ pc = "parseSource"
    /\ exc = NoExc
    /\ EndOfSource(ParseInstruction(lexer, Builder))
    /\ UNCHANGED <<fixupIdx, outputOpened, outputFile>>

\* One iteration of the loop of doFixups; r is what the iteration did
Fixed(r) ==
    /\ SetBuilder(r.b)
    /\ exc' = r.exc
    /\ fixupIdx' = IF r.exc = NoExc THEN fixupIdx + 1 ELSE fixupIdx

DoFixupsStep ==
    /\ pc = "doFixups"
    /\ exc = NoExc
    /\ fixupIdx <= Len(fixups)
    /\ Fixed(DoFixup(Builder, fixups[fixupIdx]))
    /\ UNCHANGED <<lexer, locals, pc, outputOpened, outputFile>>

\* A faulty variant of OpenOutput, used to test the properties: the output is opened before doFixups has run
OpenOutput_BeforeFixups ==
    /\ pc = "doFixups"
    /\ exc = NoExc
    /\ outputOpened' = TRUE
    /\ outputFile' = <<>>
    /\ pc' = "dumpHex"
    /\ UNCHANGED <<fixups, code, labels, currentPc, lexer, locals, fixupIdx, exc>>

\* doFixups returns; outputFile = open(sys.argv[1], 'w')
OpenOutput ==
    /\ pc = "doFixups"
    /\ exc = NoExc
    /\ fixupIdx > Len(fixups)
    /\ outputOpened' = TRUE
    /\ outputFile' = <<>>
    /\ pc' = "dumpHex"
    /\ UNCHANGED <<fixups, code, labels, currentPc, lexer, locals, fixupIdx, exc>>

\* builder.dumpHex(outputFile); outputFile.close()
DumpHexStep ==
    /\ pc = "dumpHex"
    /\ exc = NoExc
    /\ outputFile' = DumpHex(Builder)
    /\ pc' = "done"
    /\ UNCHANGED <<fixups, code, labels, currentPc, lexer, locals, fixupIdx, exc,
                   outputOpened>>

ScanStep == ParseInstructionStep(Statements, MaxLines)

Next ==
    \/ ScanStep
    \/ ParseSourceEnd
    \/ DoFixupsStep
    \/ OpenOutput
    \/ DumpHexStep

Spec == Init /\ [][Next]_vars

EncScanStep == ParseInstructionStep(EncStatements, MaxEncLines)

EncNext ==
    \/ EncScanStep
    \/ ParseSourceEnd
    \/ DoFixupsStep
    \/ OpenOutput
    \/ DumpHexStep

EncSpec == Init /\ [][EncNext]_vars

-----------------------------------------------------------------------------
(* Reading a word back: bit fields, two's complement. *)

\* The n bits of w from bit lo up
Bits(w, lo, n) == (w \div Pow2(lo)) % Pow2(n)

\* w with those n bits cleared
Outside(w, lo, n) == w - Bits(w, lo, n) * Pow2(lo)

\* An n-bit field read as a two's-complement number
Signed(v, n) == IF v >= Pow2(n - 1) THEN v - Pow2(n) ELSE v

\* The word of fixup i, in the image as it is and as the step leaves it
FixupWord(i) == code[fixups[i].codeOffset + 1]
FixupWordAfter(i) == code'[fixups[i].codeOffset + 1]

\* Fixup i has been applied by the resolution pass
Applied(i) == pc \in {"doFixups", "dumpHex", "done"} /\ i < fixupIdx

\* The step is a call of _parseInstruction that reached the builder for form f
Emits(f) == pc = "parseSource" /\ locals'.form = f /\ locals'.called

\* The step defines the label name: a definition in the source, or the
\* implicit one at the end of parseSource
Defines(name) ==
    /\ pc = "parseSource"
    /\ \/ locals'.token = Def(name) /\ locals'.called
       \/ locals'.token = <<>> /\ name = EndLabel

-----------------------------------------------------------------------------
(* C1: the number of words in the image equals the current PC, in every    *)
(* state of the scan (so a word emitted at PC p is stored at index p).     *)
C1_ImageIndexIsAddress == Len(code) = currentPc

(* C2: the patched value of a reference depends only on the label's        *)
(* address A and the instruction's address P: once its fixup is applied, a *)
(* res word is A, an unconditional branch has (A - P - 1) mod 2^12 in its  *)
(* low 12 bits and a conditional branch (A - P - 1) mod 2^10 in its low 10 *)
(* bits, whether the label was defined before or after; no step changes    *)
(* the bits of a branch word above that field.                             *)
C2_Patched(i) ==
    LET f == fixups[i]
        A == labels[f.label]
        P == f.address
    IN  /\ f.type = FIXUP_LABEL_ADDR => FixupWord(i) = A
        /\ f.type = FIXUP_UNCONDITIONAL => Bits(FixupWord(i), 0, 12) = (A - P - 1) % 4096
        /\ f.type = FIXUP_CONDITIONAL => Bits(FixupWord(i), 0, 10) = (A - P - 1) % 1024

C2_ReferenceSymmetry ==
    [][\A i \in 1..Len(fixups) :
          /\ fixups[i].type = FIXUP_UNCONDITIONAL =>
                Outside(FixupWordAfter(i), 0, 12) = Outside(FixupWord(i), 0, 12)
          /\ fixups[i].type = FIXUP_CONDITIONAL =>
                Outside(FixupWordAfter(i), 0, 10) = Outside(FixupWord(i), 0, 10)
          /\ (Applied(i) => C2_Patched(i))']_vars

\* A run that resolved a forward reference and a backward reference, one of
\* them a branch
C2_Witness ==
    /\ pc = "done"
    /\ \E i, j \in 1..Len(fixups) :
          /\ {fixups[i].type, fixups[j].type} \subseteq
                {FIXUP_UNCONDITIONAL, FIXUP_CONDITIONAL, FIXUP_LABEL_ADDR}
          /\ fixups[i].type # FIXUP_LABEL_ADDR \/ fixups[j].type # FIXUP_LABEL_ADDR
          /\ labels[fixups[i].label] > fixups[i].address
          /\ labels[fixups[j].label] <= fixups[j].address
          /\ C2_Patched(i) /\ C2_Patched(j)

(* C3: every branch fixup that the resolution pass applies has an offset   *)
(* that fits the signed field it is patched into (12 bits for jump and     *)
(* call, 10 bits for conditional branches); one that does not fit aborts   *)
(* with 'fixup out of range' and the fixup's line.                         *)
C3_Fits(i) ==
    LET offset == labels[fixups[i].label] - fixups[i].address - 1
    IN  /\ fixups[i].type = FIXUP_UNCONDITIONAL => offset \in -2048..2047
        /\ fixups[i].type = FIXUP_CONDITIONAL => offset \in -512..511

C3_FixupRangeValidated ==
    /\ \A i \in 1..Len(fixups) : Applied(i) => C3_Fits(i)
    /\ exc.msg = "fixup out of range" =>
          /\ ~C3_Fits(fixupIdx)
          /\ exc.lineno = fixups[fixupIdx].lineno

C5_FailFastNoPartialOutput ==
    [][/\ exc = NoExc
       /\ (outputOpened' \/ outputFile' # <<>>) =>
             /\ exc' = NoExc
             /\ lexer'.eof
             /\ EndLabel \in DOMAIN labels'
             /\ fixupIdx' > Len(fixups')
             /\ pc' \in {"dumpHex", "done"}
       /\ exc' # NoExc => ~outputOpened' /\ outputFile' = <<>>]_vars

\* A run that wrote its image after resolving two fixups
C5_Witness ==
    /\ pc = "done"
    /\ outputOpened
    /\ Len(outputFile) = Len(code)
    /\ Len(fixups) = 2

(* C6: for each instruction class and every operand tuple the assembler    *)
(* accepts, the class bits 13-15 and the class's bit fields of the emitted *)
(* word reproduce the class number and the operands.                       *)
C6_Decodes(w) ==
    /\ locals.form \in {FORM_THREE_REG, FORM_TWO_REG, FORM_NOP} =>
          /\ Bits(w, 13, 3) = 0
          /\ Bits(w, 9, 4) = locals.param
          /\ Bits(w, 6, 3) = locals.opb
          /\ Bits(w, 3, 3) = locals.opa
          /\ Bits(w, 0, 3) = locals.dest
    /\ locals.form = FORM_LOAD =>
          /\ Bits(w, 13, 3) = 1
          /\ Bits(w, 6, 6) = locals.value
          /\ Bits(w, 3, 3) = locals.opa
          /\ Bits(w, 0, 3) = locals.dest
    /\ locals.form = FORM_STORE =>
          /\ Bits(w, 13, 3) = 2
          /\ Bits(w, 9, 4) * 8 + Bits(w, 0, 3) = locals.value
          /\ Bits(w, 6, 3) = locals.dest
          /\ Bits(w, 3, 3) = locals.opa
    /\ locals.form = FORM_ADDI =>
          /\ Bits(w, 13, 3) = 3
          /\ Signed(Bits(w, 6, 7), 7) = locals.value
          /\ Bits(w, 3, 3) = locals.opa
          /\ Bits(w, 0, 3) = locals.dest
    /\ locals.form = FORM_LUI =>
          /\ Bits(w, 13, 3) = 4
          /\ Signed(Bits(w, 3, 10), 10) = NumberOf(locals.target).val
          /\ Bits(w, 0, 3) = locals.dest
    /\ locals.form = FORM_REG_BRANCH =>
          /\ Bits(w, 13, 3) = 7
          /\ Bits(w, 12, 1) = locals.param
          /\ Bits(w, 6, 3) = locals.dest

C6_EncodingRoundTrip ==
    (pc = "parseSource" /\ locals.called /\ exc = NoExc /\ code # <<>>) =>
        C6_Decodes(code[Len(code)])

(* C7: lui rd, imm is accepted exactly when -512 <= imm <= 512 and         *)
(* addi rd, ra, imm exactly when -63 <= imm <= 63; an accepted instruction *)
(* appends one word (class 4, value field imm mod 2^10; class 3, value     *)
(* field imm mod 2^7) and advances the PC by 1; a rejected one raises      *)
(* 'immediate value out of range' and leaves the image and the PC.         *)
C7_Accepted(class, lo, n, imm) ==
    /\ exc' = NoExc
    /\ Len(code') = Len(code) + 1
    /\ SubSeq(code', 1, Len(code)) = code
    /\ Bits(code'[Len(code')], 13, 3) = class
    /\ Bits(code'[Len(code')], lo, n) = imm % Pow2(n)
    /\ currentPc' = currentPc + 1

C7_Rejected ==
    /\ exc'.msg = "immediate value out of range "
    /\ UNCHANGED <<code, currentPc>>

C7_ImmediateRangeValidation ==
    [][/\ Emits(FORM_ADDI) =>
             IF locals'.value \in -63..63
             THEN C7_Accepted(3, 6, 7, locals'.value)
             ELSE C7_Rejected
       /\ Emits(FORM_LUI) /\ NumberOf(locals'.target).exc = NoExc =>
             IF NumberOf(locals'.target).val \in -512..512
             THEN C7_Accepted(4, 3, 10, NumberOf(locals'.target).val)
             ELSE C7_Rejected]_vars

(* C8: lea rd, label emits two words and records one fixup keyed to the    *)
(* first; once the fixup is applied with the label at address A, the       *)
(* 10-bit immediate of the first word and the immediate of the second      *)
(* satisfy (lui_imm << 6) | addi_imm = A, and the patch leaves the other   *)
(* bits of both words.                                                     *)
C8_Loads(i) ==
    LET f == fixups[i]
        lui == code[f.codeOffset + 1]
        addi == code[f.codeOffset + 2]
    IN  f.type = FIXUP_LEA =>
           BitOr(Shl(Bits(lui, 3, 10), 6), Bits(addi, 6, 7)) = labels[f.label]

C8_LeaLoadsAddress ==
    [][/\ Emits(FORM_LEA) =>
             /\ Len(code') = Len(code) + 2
             /\ Len(fixups') = Len(fixups) + 1
             /\ fixups'[Len(fixups')].type = FIXUP_LEA
             /\ fixups'[Len(fixups')].codeOffset = Len(code)
       /\ \A i \in 1..Len(fixups) :
             /\ fixups[i].type = FIXUP_LEA =>
                   /\ Outside(FixupWordAfter(i), 3, 10) = Outside(FixupWord(i), 3, 10)
                   /\ Outside(code'[fixups[i].codeOffset + 2], 6, 7) =
                         Outside(code[fixups[i].codeOffset + 2], 6, 7)
             /\ (Applied(i) => C8_Loads(i))']_vars

(* C9: an entry of the label table is never changed or removed; defining a *)
(* name that is present (the implicit __end included) raises 'redefined    *)
(* label' and leaves the label table, the PC, the image and the fixups;    *)
(* defining a new one records the current PC.                              *)
C9_LabelTablePermanent ==
    [][/\ \A l \in DOMAIN labels : l \in DOMAIN labels' /\ labels'[l] = labels[l]
       /\ \A name \in LabelNames :
             Defines(name) =>
                IF name \in DOMAIN labels
                THEN /\ exc'.msg = "redefined label "
                     /\ UNCHANGED <<labels, currentPc, code, fixups>>
                ELSE /\ exc' = NoExc
                     /\ DOMAIN labels' = DOMAIN labels \cup {name}
                     /\ labels'[name] = currentPc]_vars

\* A run with a definition of __end in the source, ended by the implicit one
C9_Witness ==
    /\ exc.msg = "redefined label "
    /\ exc.lineno = -1
    /\ locals.token = <<>>
    /\ labels[EndLabel] < currentPc

(* C10: an accepted ldi rd, imm with -0x7fff <= imm <= 0x7fff emits the    *)
(* lui and, exactly when the low 5 bits of imm are non-zero, the addi, and *)
(* 64 * (lui value field as 10-bit two's complement) + (addi value field   *)
(* as 7-bit two's complement, or 0 without addi) = imm.                    *)
C10_Reconstructs(imm, n) ==
    /\ n \in {1, 2}
    /\ n = 2 <=> imm % 32 # 0
    /\ Bits(code'[Len(code) + 1], 13, 3) = 4
    /\ n = 2 => Bits(code'[Len(code) + 2], 13, 3) = 3
    /\ 64 * Signed(Bits(code'[Len(code) + 1], 3, 10), 10)
         + (IF n = 2 THEN Signed(Bits(code'[Len(code) + 2], 6, 7), 7) ELSE 0) = imm

C10_LdiLoadsConstant ==
    [][Emits(FORM_LDI) /\ exc' = NoExc /\ locals'.value \in -32767..32767 =>
          C10_Reconstructs(locals'.value, Len(code') - Len(code))]_vars

=============================================================================
